---- MODULE Spec2Model ----
(***************************************************************************)
(* Lock-guarded containers of package threadsafe: the mutex Map and the    *)
(* RWMutex Map of map.go, the mutex Slice and the RWMutex Slice of         *)
(* slice.go, and the second RWMutex Slice kept at the end of map.go.       *)
(* Every public method is a call step, a lock step and a body step that    *)
(* runs the method's statements and its deferred unlock.                   *)
(***************************************************************************)
EXTENDS Integers, Sequences, FiniteSets, TLC

\* ------------------------------------------------------------------ bounds
NumThreads == 2
NumKeys == 2
MaxVal == 1
MaxLen == 2
MaxHeld == 2

Threads == 1..NumThreads
NoThread == 0
Keys == 1..NumKeys
\* The zero value of V and of T, which is also a value a caller may store.
Zero == 0
Values == Zero..MaxVal
\* Indices a caller passes: from one below the range to the greatest length.
Indexes == (0 - 1)..MaxLen

MapKinds == {"MapMutex", "MapRW"}
SliceKinds == {"SliceMutex", "SliceRW", "SliceRWAlt"}
Kinds == MapKinds \cup SliceKinds

VARIABLES
  kind,   \* which type of the source the shared container is
  mData,  \* Map.Data: a function from the keys present to their values
  sData,  \* Slice.Data: the sequence of elements
  lock,   \* the lock field: w the exclusive holder, r the shared holds per thread
  pc,     \* per thread: "idle" or the step it executes next
  op,     \* per thread: the public method it invoked last
  arg,    \* per thread: the arguments of that call
  ret,    \* per thread: the locals v, ok and the values the call returned
  last,   \* history: per thread the last mutating call it completed (an Empty
          \* with the size it discarded), kept only by the specifications
          \* that set last.on
  mem     \* memory behind Data and the references a caller holds into it: the
          \* spare cells of the backing array of Slice.Data, the slice that
          \* GetAll returned last, and a reference to Map.Data read from the
          \* field; kept only by the specifications that set mem.on

vars == <<kind, mData, sData, lock, pc, op, arg, ret, last, mem>>

IsRW == kind \in {"MapRW", "SliceRW", "SliceRWAlt"}

NoArg == [k |-> 0, v |-> Zero, i |-> 0, f |-> {}, re |-> "none"]
NoRet == [v |-> Zero, ok |-> FALSE, fault |-> FALSE, ks |-> <<>>, vs |-> <<>>]

\* --------------------------------------------------------- sync.Mutex / RWMutex
\* Steps at which a thread waits for the exclusive lock.
ExclusiveLabels ==
  {"MapPullLock", "MapSetLock", "MapDeleteLock", "MapEmptyLock",
   "SliceAppendLock", "SliceInsertLock", "SliceSafeInsertLock", "SliceReplaceLock", "SliceSafeReplaceLock",
   "SliceDeleteLock", "SliceSafeDeleteLock", "SliceEmptyLock"}

\* Steps at which a thread waits for the lock a read takes: shared under an
\* RWMutex, exclusive under a Mutex.
SharedLabels ==
  {"MapGetLock", "MapKeysLock", "MapValuesLock", "MapItemsLock", "MapLenLock",
   "SliceGetLock", "SliceGetAllLock", "SliceSafeGetLock", "SliceIndexFuncLock", "SliceLenLock",
   "SliceSafeInsertRLock"}

\* An RWMutex admits no new reader once a writer has called Lock.
WriterPending == \E u \in Threads : pc[u] \in ExclusiveLabels

CanLock == lock.w = NoThread /\ \A u \in Threads : lock.r[u] = 0

\* An RWMutex that admits a reader while a writer waits: what the properties of
\* a read lock taken twice by one thread must tell apart from RLock.
CanRLockBarging == lock.w = NoThread

CanRLock == lock.w = NoThread /\ ~WriterPending

\* A Lock that does not wait for the holder to release: what the properties of
\* mutual exclusion must tell apart from Lock.
LockNoWait(t) == lock' = [lock EXCEPT !.w = t]

Lock(t) == CanLock /\ lock' = [lock EXCEPT !.w = t]

Unlock(t) == lock' = [lock EXCEPT !.w = NoThread]

RLock(t) == CanRLock /\ lock' = [lock EXCEPT !.r[t] = @ + 1]

RUnlock(t) == lock' = [lock EXCEPT !.r[t] = @ - 1]

\* The lock call of a read-only method: RLock in the RWMutex types, Lock otherwise.
ReadLock(t) == IF IsRW THEN RLock(t) ELSE Lock(t)

ReadUnlock(t) == IF IsRW THEN RUnlock(t) ELSE Unlock(t)

\* ------------------------------------------------------------- control helpers
Goto(t, l) == pc' = [pc EXCEPT ![t] = l]

Return(t, r) ==
  /\ pc' = [pc EXCEPT ![t] = "idle"]
  /\ ret' = [ret EXCEPT ![t] = r]

\* No call is in progress.
Quiescent == \A t \in Threads : pc[t] = "idle"

\* The history of completed Set, Delete and Empty calls, where it is kept.
Record(t, m) == last' = IF last.on THEN [last EXCEPT !.of[t] = m] ELSE last

\* A caller invokes method o with arguments a and reaches its first step l.
Invoke(t, o, a, l) ==
  /\ pc[t] = "idle"
  /\ lock.r[t] < MaxHeld
  /\ pc' = [pc EXCEPT ![t] = l]
  /\ op' = [op EXCEPT ![t] = o]
  /\ arg' = [arg EXCEPT ![t] = a]
  /\ ret' = [ret EXCEPT ![t] = NoRet]
  /\ UNCHANGED <<kind, last, mem, mData, sData, lock>>

\* ----------------------------------------------------------------- map values
Has(m, k) == k \in DOMAIN m

\* A store that keeps the old value of a key already present: what the
\* properties of Set must tell apart from m.Data[key] = value.
MapPutIfAbsent(m, k, v) == [x \in DOMAIN m \cup {k} |-> IF x \in DOMAIN m THEN m[x] ELSE v]

MapPut(m, k, v) == [x \in DOMAIN m \cup {k} |-> IF x = k THEN v ELSE m[x]]

MapDel(m, k) == [x \in DOMAIN m \ {k} |-> m[x]]

EmptyMap == [x \in {} |-> Zero]

\* ------------------------------------------------------ memory behind Data
\* The greatest capacity append gives a new backing array.
MaxCap == MaxLen

Zeros(n) == [j \in 1..n |-> Zero]

\* The backing array of s.Data: its len(s.Data) elements and the spare cells up
\* to cap(s.Data), which keep what was stored in them last.
Array == sData \o mem.spare

Cap == Len(Array)

\* What a caller reads through the slice GetAll returned last: the first cells
\* of the backing array while s.Data still uses that array, the cells of the
\* abandoned array after.
HandleView ==
  IF mem.handle.shared THEN SubSeq(Array, 1, mem.handle.len) ELSE mem.handle.arr

\* s.Data leaves its backing array to the slice handed out.
Detached == [shared |-> FALSE, len |-> mem.handle.len, arr |-> HandleView]

\* s.Data = append(...) and s.Data[index] = v with the new contents s: written
\* into the backing array when cap(s.Data) suffices, and else into a new array,
\* sufficiently large, whose spare cells are zero.
Assign(s) ==
  /\ sData' = s
  /\ IF ~mem.on
       THEN mem' = mem
       ELSE IF Len(s) <= Cap
         THEN mem' = [mem EXCEPT !.spare = SubSeq(Array, Len(s) + 1, Cap)]
         ELSE \E c \in Len(s)..MaxCap :
                mem' = [mem EXCEPT !.spare = Zeros(c - Len(s)), !.handle = Detached]

\* An Empty that leaves s.Data as it is: what the properties of Empty must
\* tell apart from s.Data = nil.
AssignNothing ==
  /\ sData' = sData
  /\ mem' = mem

\* An Empty that zeroes the cells of the backing array and keeps the array:
\* what the properties of the slice handed out must tell apart from s.Data = nil.
AssignCleared ==
  /\ sData' = <<>>
  /\ mem' = IF mem.on THEN [mem EXCEPT !.spare = Zeros(Cap)] ELSE mem

\* s.Data = nil.
AssignNil ==
  /\ sData' = <<>>
  /\ mem' = IF mem.on THEN [mem EXCEPT !.spare = <<>>, !.handle = Detached] ELSE mem

\* What a caller reads through a reference to m.Data taken from the field: the
\* Map's collection while m.Data is still that collection.
RefView == IF mem.ref.shared THEN mData ELSE mem.ref.m

\* The orders in which a range over the map may visit its keys.
Orders(m) ==
  {o \in [1..Cardinality(DOMAIN m) -> DOMAIN m] :
     \A i, j \in DOMAIN o : i # j => o[i] # o[j]}

\* ------------------------------------------------------------------- Map.Get
MapGet(t, k) ==
  /\ kind \in MapKinds
  /\ Invoke(t, "Get", [NoArg EXCEPT !.k = k], "MapGetLock")

MapGetLock(t) ==
  /\ pc[t] = "MapGetLock"
  /\ ReadLock(t)
  /\ Goto(t, "MapGetBody")
  /\ UNCHANGED <<kind, last, mem, mData, sData, op, arg, ret>>

MapGetBody(t) ==
  /\ pc[t] = "MapGetBody"
  /\ Return(t, [NoRet EXCEPT
                  !.v = IF Has(mData, arg[t].k) THEN mData[arg[t].k] ELSE Zero,
                  !.ok = Has(mData, arg[t].k)])
  /\ ReadUnlock(t)
  /\ UNCHANGED <<kind, last, mem, mData, sData, op, arg>>

\* ------------------------------------------------------------------ Map.Pull
MapPull(t, k) ==
  /\ kind = "MapMutex"
  /\ Invoke(t, "Pull", [NoArg EXCEPT !.k = k], "MapPullLock")

MapPullLock(t) ==
  /\ pc[t] = "MapPullLock"
  /\ Lock(t)
  /\ Goto(t, "MapPullRead")
  /\ UNCHANGED <<kind, last, mem, mData, sData, op, arg, ret>>

\* v, ok := m.Data[key]; a missing key returns at once, a present key goes on
\* to call m.Delete(key), whose first statement is m.lock.Lock().
MapPullRead(t) ==
  /\ pc[t] = "MapPullRead"
  /\ ret' = [ret EXCEPT ![t] =
               [NoRet EXCEPT
                  !.v = IF Has(mData, arg[t].k) THEN mData[arg[t].k] ELSE Zero,
                  !.ok = Has(mData, arg[t].k)]]
  /\ IF Has(mData, arg[t].k)
       THEN Goto(t, "MapDeleteLock")
       ELSE Goto(t, "MapPullReturn")
  /\ UNCHANGED <<kind, last, mem, mData, sData, lock, op, arg>>

\* return v, ok with the deferred m.lock.Unlock().
MapPullReturn(t) ==
  /\ pc[t] = "MapPullReturn"
  /\ Unlock(t)
  /\ Goto(t, "idle")
  /\ UNCHANGED <<kind, last, mem, mData, sData, op, arg, ret>>

\* ------------------------------------------------------------------- Map.Set
MapSet(t, k, v) ==
  /\ kind \in MapKinds
  /\ Invoke(t, "Set", [NoArg EXCEPT !.k = k, !.v = v], "MapSetLock")

MapSetLock(t) ==
  /\ pc[t] = "MapSetLock"
  /\ Lock(t)
  /\ Goto(t, "MapSetBody")
  /\ UNCHANGED <<kind, last, mem, mData, sData, op, arg, ret>>

MapSetBody(t) ==
  /\ pc[t] = "MapSetBody"
  /\ mData' = MapPut(mData, arg[t].k, arg[t].v)
  /\ Unlock(t)
  /\ Return(t, NoRet)
  /\ Record(t, <<"Set", arg[t].k, arg[t].v>>)
  /\ UNCHANGED <<kind, mem, sData, op, arg>>

\* ---------------------------------------------------------------- Map.Delete
MapDelete(t, k) ==
  /\ kind \in MapKinds
  /\ Invoke(t, "Delete", [NoArg EXCEPT !.k = k], "MapDeleteLock")

\* Reached by a call of Delete and by the call Pull makes while it holds the lock.
MapDeleteLock(t) ==
  /\ pc[t] = "MapDeleteLock"
  /\ Lock(t)
  /\ Goto(t, "MapDeleteBody")
  /\ UNCHANGED <<kind, last, mem, mData, sData, op, arg, ret>>

MapDeleteBody(t) ==
  /\ pc[t] = "MapDeleteBody"
  /\ mData' = IF Has(mData, arg[t].k) THEN MapDel(mData, arg[t].k) ELSE mData
  /\ Unlock(t)
  /\ IF op[t] = "Pull"
       THEN Goto(t, "MapPullReturn") /\ UNCHANGED <<ret, last>>
       ELSE Return(t, NoRet) /\ Record(t, <<"Delete", arg[t].k>>)
  /\ UNCHANGED <<kind, mem, sData, op, arg>>

\* ------------------------------------------------------------------ Map.Keys
MapKeys(t) ==
  /\ kind \in MapKinds
  /\ Invoke(t, "Keys", NoArg, "MapKeysLock")

MapKeysLock(t) ==
  /\ pc[t] = "MapKeysLock"
  /\ ReadLock(t)
  /\ Goto(t, "MapKeysBody")
  /\ UNCHANGED <<kind, last, mem, mData, sData, op, arg, ret>>

MapKeysBody(t) ==
  /\ pc[t] = "MapKeysBody"
  /\ \E o \in Orders(mData) : Return(t, [NoRet EXCEPT !.ks = o])
  /\ ReadUnlock(t)
  /\ UNCHANGED <<kind, last, mem, mData, sData, op, arg>>

\* ---------------------------------------------------------------- Map.Values
MapValues(t) ==
  /\ kind \in MapKinds
  /\ Invoke(t, "Values", NoArg, "MapValuesLock")

MapValuesLock(t) ==
  /\ pc[t] = "MapValuesLock"
  /\ ReadLock(t)
  /\ Goto(t, "MapValuesBody")
  /\ UNCHANGED <<kind, last, mem, mData, sData, op, arg, ret>>

MapValuesBody(t) ==
  /\ pc[t] = "MapValuesBody"
  /\ \E o \in Orders(mData) :
       Return(t, [NoRet EXCEPT !.vs = [i \in DOMAIN o |-> mData[o[i]]]])
  /\ ReadUnlock(t)
  /\ UNCHANGED <<kind, last, mem, mData, sData, op, arg>>

\* ----------------------------------------------------------------- Map.Items
MapItems(t) ==
  /\ kind \in MapKinds
  /\ Invoke(t, "Items", NoArg, "MapItemsLock")

MapItemsLock(t) ==
  /\ pc[t] = "MapItemsLock"
  /\ ReadLock(t)
  /\ Goto(t, "MapItemsBody")
  /\ UNCHANGED <<kind, last, mem, mData, sData, op, arg, ret>>

\* Items that fills keys and values in two ranges over the map, each in an
\* order of its own: what the properties of Items must tell apart from it.
MapItemsTorn(t) ==
  /\ pc[t] = "MapItemsBody"
  /\ \E o, q \in Orders(mData) :
       Return(t, [NoRet EXCEPT !.ks = o, !.vs = [i \in DOMAIN q |-> mData[q[i]]]])
  /\ ReadUnlock(t)
  /\ UNCHANGED <<kind, last, mem, mData, sData, op, arg>>

MapItemsBody(t) ==
  /\ pc[t] = "MapItemsBody"
  /\ \E o \in Orders(mData) :
       Return(t, [NoRet EXCEPT !.ks = o, !.vs = [i \in DOMAIN o |-> mData[o[i]]]])
  /\ ReadUnlock(t)
  /\ UNCHANGED <<kind, last, mem, mData, sData, op, arg>>

\* ----------------------------------------------------------------- Map.Empty
MapEmpty(t) ==
  /\ kind \in MapKinds
  /\ Invoke(t, "Empty", NoArg, "MapEmptyLock")

MapEmptyLock(t) ==
  /\ pc[t] = "MapEmptyLock"
  /\ Lock(t)
  /\ Goto(t, "MapEmptyBody")
  /\ UNCHANGED <<kind, last, mem, mData, sData, op, arg, ret>>

\* An Empty that deletes every key of the collection and keeps the collection:
\* what the properties of a reference to Data must tell apart from Empty.
MapEmptyInPlace(t) ==
  /\ pc[t] = "MapEmptyBody"
  /\ mData' = EmptyMap
  /\ Unlock(t)
  /\ Return(t, NoRet)
  /\ Record(t, <<"Empty", Cardinality(DOMAIN mData)>>)
  /\ UNCHANGED <<kind, mem, sData, op, arg>>

MapEmptyBody(t) ==
  /\ pc[t] = "MapEmptyBody"
  /\ mData' = EmptyMap
  /\ mem' = IF mem.on THEN [mem EXCEPT !.ref = [shared |-> FALSE, m |-> RefView]] ELSE mem
  /\ Unlock(t)
  /\ Return(t, NoRet)
  /\ Record(t, <<"Empty", Cardinality(DOMAIN mData)>>)
  /\ UNCHANGED <<kind, sData, op, arg>>

\* ------------------------------------------------------------------ Map.Data
\* A caller between two calls reads the exported field: ref := m.Data.
MapDataRef(t) ==
  /\ kind \in MapKinds
  /\ pc[t] = "idle"
  /\ mem.on /\ ~mem.ref.shared
  /\ mem' = [mem EXCEPT !.ref = [shared |-> TRUE, m |-> EmptyMap]]
  /\ UNCHANGED <<kind, last, mData, sData, lock, pc, op, arg, ret>>

\* ------------------------------------------------------------------- Map.Len
MapLen(t) ==
  /\ kind = "MapMutex"
  /\ Invoke(t, "Len", NoArg, "MapLenLock")

MapLenLock(t) ==
  /\ pc[t] = "MapLenLock"
  /\ Lock(t)
  /\ Goto(t, "MapLenBody")
  /\ UNCHANGED <<kind, last, mem, mData, sData, op, arg, ret>>

MapLenBody(t) ==
  /\ pc[t] = "MapLenBody"
  /\ Return(t, [NoRet EXCEPT !.v = Cardinality(DOMAIN mData)])
  /\ Unlock(t)
  /\ UNCHANGED <<kind, last, mem, mData, sData, op, arg>>

\* --------------------------------------------------------------- slice values
\* s.Data[index] panics unless 0 <= index < len(s.Data).
IndexFaults(s, i) == i < 0 \/ i >= Len(s)

\* append(s.Data[:i], s.Data[i+1:]...): s.Data[:i] panics unless 0 <= i <= cap and
\* s.Data[i+1:] unless i+1 <= len; as len <= cap, one of them panics exactly when
\* i is outside 0..len-1.
DeleteFaults(s, i) == i < 0 \/ i + 1 > Len(s)

\* append(s.Data[:i], append([]T{v}, s.Data[i:]...)...): s.Data[i:] panics unless
\* 0 <= i <= len.
InsertFaults(s, i) == i < 0 \/ i > Len(s)

\* The element at the 0-based index i.
At(s, i) == s[i + 1]

SetAt(s, i, v) == [s EXCEPT ![i + 1] = v]

\* An insertion that overwrites the element at i (and appends at i = len): what
\* the properties of the inserting Insert must tell apart from it.
InsertOver(s, i, v) == IF i < Len(s) THEN [s EXCEPT ![i + 1] = v] ELSE Append(s, v)

InsertAt(s, i, v) == SubSeq(s, 1, i) \o <<v>> \o SubSeq(s, i + 1, Len(s))

\* A removal that cuts the last element off instead of the element at i: what
\* the properties of Delete must tell apart from it.
DeleteLast(s, i) == SubSeq(s, 1, Len(s) - 1)

DeleteAt(s, i) == SubSeq(s, 1, i) \o SubSeq(s, i + 2, Len(s))

\* A panic unwinds through the deferred unlock and reaches the caller.
Fault == [NoRet EXCEPT !.fault = TRUE]

\* Methods that make the sequence longer, and the calls of them in progress.
Growers == {"Append", "Insert", "SafeInsert"}

Growing == Cardinality({u \in Threads : pc[u] # "idle" /\ op[u] \in Growers})

\* -------------------------------------------------------------- Slice.Append
SliceAppend(t, v) ==
  /\ kind \in SliceKinds
  /\ Len(sData) + Growing < MaxLen
  /\ Invoke(t, "Append", [NoArg EXCEPT !.v = v], "SliceAppendLock")

SliceAppendLock(t) ==
  /\ pc[t] = "SliceAppendLock"
  /\ Lock(t)
  /\ Goto(t, "SliceAppendBody")
  /\ UNCHANGED <<kind, last, mem, mData, sData, op, arg, ret>>

\* An Append that puts the value in front of the sequence: what the properties
\* of Append must tell apart from it.
SliceAppendFront(t) ==
  /\ pc[t] = "SliceAppendBody"
  /\ Assign(<<arg[t].v>> \o sData)
  /\ Unlock(t)
  /\ Return(t, NoRet)
  /\ Record(t, <<op[t], arg[t].v>>)
  /\ UNCHANGED <<kind, mData, op, arg>>

\* Append returns to its caller, or to the predicate of IndexFunc that called it.
SliceAppendBody(t) ==
  /\ pc[t] = "SliceAppendBody"
  /\ Assign(Append(sData, arg[t].v))
  /\ Unlock(t)
  /\ IF op[t] = "IndexFunc"
       THEN Goto(t, "SliceIndexFuncTest") /\ UNCHANGED ret
       ELSE Return(t, NoRet)
  /\ Record(t, <<op[t], arg[t].v>>)
  /\ UNCHANGED <<kind, mData, op, arg>>

\* -------------------------------------------------------------- Slice.Insert
\* Insert(index int, v T) in the mutex Slice, Insert(index uint, v T) in the others.
SliceInsert(t, i, v) ==
  /\ kind \in SliceKinds
  /\ kind # "SliceMutex" => i >= 0
  /\ Len(sData) + Growing < MaxLen
  /\ Invoke(t, "Insert", [NoArg EXCEPT !.i = i, !.v = v], "SliceInsertLock")

SliceInsertLock(t) ==
  /\ pc[t] = "SliceInsertLock"
  /\ Lock(t)
  /\ Goto(t, "SliceInsertBody")
  /\ UNCHANGED <<kind, last, mem, mData, sData, op, arg, ret>>

\* The mutex Slice inserts with append; the RWMutex Slices assign s.Data[index] = v.
SliceInsertBody(t) ==
  /\ pc[t] = "SliceInsertBody"
  /\ IF kind = "SliceMutex"
       THEN IF InsertFaults(sData, arg[t].i)
              THEN Return(t, Fault) /\ UNCHANGED <<sData, mem>>
              ELSE /\ Assign(InsertAt(sData, arg[t].i, arg[t].v))
                   /\ Return(t, NoRet)
       ELSE IF IndexFaults(sData, arg[t].i)
              THEN Return(t, Fault) /\ UNCHANGED <<sData, mem>>
              ELSE /\ Assign(SetAt(sData, arg[t].i, arg[t].v))
                   /\ Return(t, NoRet)
  /\ Unlock(t)
  /\ Record(t, <<op[t], arg[t].v>>)
  /\ UNCHANGED <<kind, mData, op, arg>>

\* ---------------------------------------------------------- Slice.SafeInsert
\* The mutex Slice checks the index before it locks; the RWMutex Slice of
\* slice.go checks it under RLock.
SliceSafeInsert(t, i, v) ==
  /\ kind \in {"SliceMutex", "SliceRW"}
  /\ Len(sData) + Growing < MaxLen
  /\ Invoke(t, "SafeInsert", [NoArg EXCEPT !.i = i, !.v = v],
            IF kind = "SliceMutex" THEN "SliceSafeInsertCheck" ELSE "SliceSafeInsertRLock")

\* if index < 0 || index > len(s.Data) { return false }, with no lock held.
SliceSafeInsertCheck(t) ==
  /\ pc[t] = "SliceSafeInsertCheck"
  /\ IF arg[t].i < 0 \/ arg[t].i > Len(sData)
       THEN Return(t, NoRet)
       ELSE Goto(t, "SliceSafeInsertLock") /\ UNCHANGED ret
  /\ UNCHANGED <<kind, last, mem, mData, sData, lock, op, arg>>

SliceSafeInsertRLock(t) ==
  /\ pc[t] = "SliceSafeInsertRLock"
  /\ RLock(t)
  /\ Goto(t, "SliceSafeInsertRCheck")
  /\ UNCHANGED <<kind, last, mem, mData, sData, op, arg, ret>>

\* if index >= len(s.Data) { return false }; s.lock.RUnlock(): the return comes
\* before the RUnlock.
SliceSafeInsertRCheck(t) ==
  /\ pc[t] = "SliceSafeInsertRCheck"
  /\ IF arg[t].i >= Len(sData)
       THEN Return(t, NoRet) /\ UNCHANGED lock
       ELSE RUnlock(t) /\ Goto(t, "SliceSafeInsertLock") /\ UNCHANGED ret
  /\ UNCHANGED <<kind, last, mem, mData, sData, op, arg>>

SliceSafeInsertLock(t) ==
  /\ pc[t] = "SliceSafeInsertLock"
  /\ Lock(t)
  /\ Goto(t, IF kind = "SliceMutex" THEN "SliceSafeInsertBody" ELSE "SliceSafeInsertWrite")
  /\ UNCHANGED <<kind, last, mem, mData, sData, op, arg, ret>>

\* The mutex Slice: the append under the lock, unlocked by defer.
SliceSafeInsertBody(t) ==
  /\ pc[t] = "SliceSafeInsertBody"
  /\ IF InsertFaults(sData, arg[t].i)
       THEN Return(t, Fault) /\ UNCHANGED <<sData, mem>>
       ELSE /\ Assign(InsertAt(sData, arg[t].i, arg[t].v))
            /\ Return(t, [NoRet EXCEPT !.ok = TRUE])
  /\ Unlock(t)
  /\ Record(t, <<op[t], arg[t].v>>)
  /\ UNCHANGED <<kind, mData, op, arg>>

\* The RWMutex Slice: s.Data[index] = v; s.lock.Unlock(); return true. The
\* Unlock is not deferred: a panic of the assignment leaves the lock held.
SliceSafeInsertWrite(t) ==
  /\ pc[t] = "SliceSafeInsertWrite"
  /\ IF IndexFaults(sData, arg[t].i)
       THEN Return(t, Fault) /\ UNCHANGED <<sData, mem, lock>>
       ELSE /\ Assign(SetAt(sData, arg[t].i, arg[t].v))
            /\ Unlock(t)
            /\ Return(t, [NoRet EXCEPT !.ok = TRUE])
  /\ Record(t, <<op[t], arg[t].v>>)
  /\ UNCHANGED <<kind, mData, op, arg>>

\* ------------------------------------------------------------- Slice.Replace
SliceReplace(t, i, v) ==
  /\ kind = "SliceMutex"
  /\ Invoke(t, "Replace", [NoArg EXCEPT !.i = i, !.v = v], "SliceReplaceLock")

SliceReplaceLock(t) ==
  /\ pc[t] = "SliceReplaceLock"
  /\ Lock(t)
  /\ Goto(t, "SliceReplaceBody")
  /\ UNCHANGED <<kind, last, mem, mData, sData, op, arg, ret>>

SliceReplaceBody(t) ==
  /\ pc[t] = "SliceReplaceBody"
  /\ IF IndexFaults(sData, arg[t].i)
       THEN Return(t, Fault) /\ UNCHANGED <<sData, mem>>
       ELSE /\ Assign(SetAt(sData, arg[t].i, arg[t].v))
            /\ Return(t, NoRet)
  /\ Unlock(t)
  /\ Record(t, <<op[t], arg[t].v>>)
  /\ UNCHANGED <<kind, mData, op, arg>>

\* --------------------------------------------------------- Slice.SafeReplace
SliceSafeReplace(t, i, v) ==
  /\ kind = "SliceMutex"
  /\ Invoke(t, "SafeReplace", [NoArg EXCEPT !.i = i, !.v = v], "SliceSafeReplaceLock")

SliceSafeReplaceLock(t) ==
  /\ pc[t] = "SliceSafeReplaceLock"
  /\ Lock(t)
  /\ Goto(t, "SliceSafeReplaceBody")
  /\ UNCHANGED <<kind, last, mem, mData, sData, op, arg, ret>>

\* A SafeReplace whose check lets the index len(s.Data) and the negative
\* indices pass: what the properties of the Safe calls must tell apart from it.
SliceSafeReplaceLoose(t) ==
  /\ pc[t] = "SliceSafeReplaceBody"
  /\ IF arg[t].i > Len(sData)
       THEN Return(t, NoRet) /\ UNCHANGED <<sData, mem>>
       ELSE IF IndexFaults(sData, arg[t].i)
         THEN Return(t, Fault) /\ UNCHANGED <<sData, mem>>
         ELSE /\ Assign(SetAt(sData, arg[t].i, arg[t].v))
              /\ Return(t, [NoRet EXCEPT !.ok = TRUE])
  /\ Unlock(t)
  /\ Record(t, <<op[t], arg[t].v>>)
  /\ UNCHANGED <<kind, mData, op, arg>>

SliceSafeReplaceBody(t) ==
  /\ pc[t] = "SliceSafeReplaceBody"
  /\ IF arg[t].i < 0 \/ arg[t].i >= Len(sData)
       THEN Return(t, NoRet) /\ UNCHANGED <<sData, mem>>
       ELSE /\ Assign(SetAt(sData, arg[t].i, arg[t].v))
            /\ Return(t, [NoRet EXCEPT !.ok = TRUE])
  /\ Unlock(t)
  /\ Record(t, <<op[t], arg[t].v>>)
  /\ UNCHANGED <<kind, mData, op, arg>>

\* ----------------------------------------------------------------- Slice.Get
SliceGet(t, i) ==
  /\ kind \in SliceKinds
  /\ Invoke(t, "Get", [NoArg EXCEPT !.i = i], "SliceGetLock")

SliceGetLock(t) ==
  /\ pc[t] = "SliceGetLock"
  /\ ReadLock(t)
  /\ Goto(t, "SliceGetBody")
  /\ UNCHANGED <<kind, last, mem, mData, sData, op, arg, ret>>

SliceGetBody(t) ==
  /\ pc[t] = "SliceGetBody"
  /\ IF IndexFaults(sData, arg[t].i)
       THEN Return(t, Fault)
       ELSE Return(t, [NoRet EXCEPT !.v = At(sData, arg[t].i)])
  /\ ReadUnlock(t)
  /\ UNCHANGED <<kind, last, mem, mData, sData, op, arg>>

\* -------------------------------------------------------------- Slice.GetAll
SliceGetAll(t) ==
  /\ kind \in SliceKinds
  /\ Invoke(t, "GetAll", NoArg, "SliceGetAllLock")

SliceGetAllLock(t) ==
  /\ pc[t] = "SliceGetAllLock"
  /\ ReadLock(t)
  /\ Goto(t, "SliceGetAllBody")
  /\ UNCHANGED <<kind, last, mem, mData, sData, op, arg, ret>>

SliceGetAllBody(t) ==
  /\ pc[t] = "SliceGetAllBody"
  /\ Return(t, [NoRet EXCEPT !.vs = sData])
  /\ mem' = IF mem.on
              THEN [mem EXCEPT !.handle = [shared |-> TRUE, len |-> Len(sData), arr |-> <<>>]]
              ELSE mem
  /\ ReadUnlock(t)
  /\ UNCHANGED <<kind, last, mData, sData, op, arg>>

\* ------------------------------------------------------------- Slice.SafeGet
SliceSafeGet(t, i) ==
  /\ kind \in SliceKinds
  /\ Invoke(t, "SafeGet", [NoArg EXCEPT !.i = i], "SliceSafeGetLock")

SliceSafeGetLock(t) ==
  /\ pc[t] = "SliceSafeGetLock"
  /\ ReadLock(t)
  /\ Goto(t, "SliceSafeGetBody")
  /\ UNCHANGED <<kind, last, mem, mData, sData, op, arg, ret>>

\* The bounds check: index < 0 || index >= len(s.Data) in the mutex Slice,
\* index > len(s.Data) in the RWMutex Slices.
SafeGetRejects(s, i) ==
  IF kind = "SliceMutex" THEN i < 0 \/ i >= Len(s) ELSE i > Len(s)

SliceSafeGetBody(t) ==
  /\ pc[t] = "SliceSafeGetBody"
  /\ IF SafeGetRejects(sData, arg[t].i)
       THEN Return(t, NoRet)
       ELSE IF IndexFaults(sData, arg[t].i)
              THEN Return(t, Fault)
              ELSE Return(t, [NoRet EXCEPT !.v = At(sData, arg[t].i), !.ok = TRUE])
  /\ ReadUnlock(t)
  /\ UNCHANGED <<kind, last, mem, mData, sData, op, arg>>

\* -------------------------------------------------------------- Slice.Delete
SliceDelete(t, i) ==
  /\ kind \in SliceKinds
  /\ Invoke(t, "Delete", [NoArg EXCEPT !.i = i], "SliceDeleteLock")

SliceDeleteLock(t) ==
  /\ pc[t] = "SliceDeleteLock"
  /\ Lock(t)
  /\ Goto(t, "SliceDeleteBody")
  /\ UNCHANGED <<kind, last, mem, mData, sData, op, arg, ret>>

SliceDeleteBody(t) ==
  /\ pc[t] = "SliceDeleteBody"
  /\ IF DeleteFaults(sData, arg[t].i)
       THEN Return(t, Fault) /\ UNCHANGED <<sData, mem>>
       ELSE /\ Assign(DeleteAt(sData, arg[t].i))
            /\ Return(t, NoRet)
  /\ Unlock(t)
  /\ Record(t, <<op[t], arg[t].v>>)
  /\ UNCHANGED <<kind, mData, op, arg>>

\* ---------------------------------------------------------- Slice.SafeDelete
SliceSafeDelete(t, i) ==
  /\ kind \in SliceKinds
  /\ Invoke(t, "SafeDelete", [NoArg EXCEPT !.i = i], "SliceSafeDeleteCheck")

\* if index < 0 || index >= len(s.Data) { return false }, with no lock held.
SliceSafeDeleteCheck(t) ==
  /\ pc[t] = "SliceSafeDeleteCheck"
  /\ IF arg[t].i < 0 \/ arg[t].i >= Len(sData)
       THEN Return(t, NoRet)
       ELSE Goto(t, "SliceSafeDeleteLock") /\ UNCHANGED ret
  /\ UNCHANGED <<kind, last, mem, mData, sData, lock, op, arg>>

SliceSafeDeleteLock(t) ==
  /\ pc[t] = "SliceSafeDeleteLock"
  /\ Lock(t)
  /\ Goto(t, "SliceSafeDeleteBody")
  /\ UNCHANGED <<kind, last, mem, mData, sData, op, arg, ret>>

SliceSafeDeleteBody(t) ==
  /\ pc[t] = "SliceSafeDeleteBody"
  /\ IF DeleteFaults(sData, arg[t].i)
       THEN Return(t, Fault) /\ UNCHANGED <<sData, mem>>
       ELSE /\ Assign(DeleteAt(sData, arg[t].i))
            /\ Return(t, [NoRet EXCEPT !.ok = TRUE])
  /\ Unlock(t)
  /\ Record(t, <<op[t], arg[t].v>>)
  /\ UNCHANGED <<kind, mData, op, arg>>

\* --------------------------------------------------------------- Slice.Empty
SliceEmpty(t) ==
  /\ kind \in {"SliceMutex", "SliceRW"}
  /\ Invoke(t, "Empty", NoArg, "SliceEmptyLock")

SliceEmptyLock(t) ==
  /\ pc[t] = "SliceEmptyLock"
  /\ Lock(t)
  /\ Goto(t, "SliceEmptyBody")
  /\ UNCHANGED <<kind, last, mem, mData, sData, op, arg, ret>>

SliceEmptyBody(t) ==
  /\ pc[t] = "SliceEmptyBody"
  /\ AssignNil
  /\ Unlock(t)
  /\ Return(t, NoRet)
  /\ Record(t, <<"Empty", Len(sData)>>)
  /\ UNCHANGED <<kind, mData, op, arg>>

\* ----------------------------------------------------------- Slice.IndexFunc
\* The predicate f is the set of the values it accepts.
SliceIndexFunc(t, f) ==
  /\ kind \in SliceKinds
  /\ Invoke(t, "IndexFunc", [NoArg EXCEPT !.f = f], "SliceIndexFuncLock")

\* A predicate that, before it answers, calls method g of the Slice it is
\* scanning: Len, or Append of the value v.
SliceIndexFuncCalling(t, f, g, v) ==
  /\ kind \in SliceKinds
  /\ Invoke(t, "IndexFunc", [NoArg EXCEPT !.f = f, !.re = g, !.v = v], "SliceIndexFuncLock")

SliceIndexFuncLock(t) ==
  /\ pc[t] = "SliceIndexFuncLock"
  /\ ReadLock(t)
  /\ Goto(t, "SliceIndexFuncBody")
  /\ UNCHANGED <<kind, last, mem, mData, sData, op, arg, ret>>

\* An answer that takes the elements f rejects for matches: what the
\* properties of IndexFunc must tell apart from it.
SliceIndexFuncNegated(t) ==
  IF At(sData, ret[t].v) \notin arg[t].f
    THEN /\ Return(t, [NoRet EXCEPT !.v = ret[t].v])
         /\ ReadUnlock(t)
    ELSE /\ ret' = [ret EXCEPT ![t].v = @ + 1]
         /\ Goto(t, "SliceIndexFuncBody")
         /\ UNCHANGED lock

\* if f(v) { return i }, and else the next index of the range; the index i of
\* the range is kept in ret[t].v, 0 when the method is entered.
SliceIndexFuncAnswer(t) ==
  IF At(sData, ret[t].v) \in arg[t].f
    THEN /\ Return(t, [NoRet EXCEPT !.v = ret[t].v])
         /\ ReadUnlock(t)
    ELSE /\ ret' = [ret EXCEPT ![t].v = @ + 1]
         /\ Goto(t, "SliceIndexFuncBody")
         /\ UNCHANGED lock

\* One turn of for i, v := range s.Data: return -1 past the last element, and
\* else call f(v), which answers at once or first calls into the Slice.
SliceIndexFuncBody(t) ==
  /\ pc[t] = "SliceIndexFuncBody"
  /\ IF ret[t].v >= Len(sData)
       THEN /\ Return(t, [NoRet EXCEPT !.v = 0 - 1])
            /\ ReadUnlock(t)
       ELSE IF arg[t].re = "none"
         THEN SliceIndexFuncAnswer(t)
         ELSE /\ Goto(t, IF arg[t].re = "Len" THEN "SliceLenLock" ELSE "SliceAppendLock")
              /\ UNCHANGED <<ret, lock>>
  /\ UNCHANGED <<kind, last, mem, mData, sData, op, arg>>

\* The call the predicate made has returned, and f(v) answers.
SliceIndexFuncTest(t) ==
  /\ pc[t] = "SliceIndexFuncTest"
  /\ SliceIndexFuncAnswer(t)
  /\ UNCHANGED <<kind, last, mem, mData, sData, op, arg>>

\* ----------------------------------------------------------------- Slice.Len
SliceLen(t) ==
  /\ kind \in SliceKinds
  /\ Invoke(t, "Len", NoArg, "SliceLenLock")

SliceLenLock(t) ==
  /\ pc[t] = "SliceLenLock"
  /\ ReadLock(t)
  /\ Goto(t, "SliceLenBody")
  /\ UNCHANGED <<kind, last, mem, mData, sData, op, arg, ret>>

\* Len returns to its caller, or to the predicate of IndexFunc that called it.
SliceLenBody(t) ==
  /\ pc[t] = "SliceLenBody"
  /\ IF op[t] = "IndexFunc"
       THEN Goto(t, "SliceIndexFuncTest") /\ UNCHANGED ret
       ELSE Return(t, [NoRet EXCEPT !.v = Len(sData)])
  /\ ReadUnlock(t)
  /\ UNCHANGED <<kind, last, mem, mData, sData, op, arg>>

\* ------------------------------------------------------------- specification
Start ==
  /\ mData = EmptyMap
  /\ sData = <<>>
  /\ lock = [w |-> NoThread, r |-> [u \in Threads |-> 0]]
  /\ pc = [u \in Threads |-> "idle"]
  /\ op = [u \in Threads |-> "none"]
  /\ arg = [u \in Threads |-> NoArg]
  /\ ret = [u \in Threads |-> NoRet]

NoHistory == [on |-> FALSE, of |-> [u \in Threads |-> <<>>]]

\* No backing array yet (the zero value of Slice has Data = nil) and no
\* reference handed out.
NoMem ==
  [on |-> FALSE, spare |-> <<>>,
   handle |-> [shared |-> FALSE, len |-> 0, arr |-> <<>>],
   ref |-> [shared |-> FALSE, m |-> EmptyMap]]

Init ==
  /\ kind \in Kinds
  /\ last = NoHistory
  /\ mem = NoMem
  /\ Start

MapCall(t) ==
  \/ \E k \in Keys : MapGet(t, k)
  \/ \E k \in Keys : MapPull(t, k)
  \/ \E k \in Keys, v \in Values : MapSet(t, k, v)
  \/ \E k \in Keys : MapDelete(t, k)
  \/ MapKeys(t)
  \/ MapValues(t)
  \/ MapItems(t)
  \/ MapEmpty(t)
  \/ MapLen(t)

MapStep(t) ==
  \/ MapGetLock(t) \/ MapGetBody(t)
  \/ MapPullLock(t) \/ MapPullRead(t) \/ MapPullReturn(t)
  \/ MapSetLock(t) \/ MapSetBody(t)
  \/ MapDeleteLock(t) \/ MapDeleteBody(t)
  \/ MapKeysLock(t) \/ MapKeysBody(t)
  \/ MapValuesLock(t) \/ MapValuesBody(t)
  \/ MapItemsLock(t) \/ MapItemsBody(t)
  \/ MapEmptyLock(t) \/ MapEmptyBody(t)
  \/ MapLenLock(t) \/ MapLenBody(t)

SliceCall(t) ==
  \/ \E v \in Values : SliceAppend(t, v)
  \/ \E i \in Indexes, v \in Values : SliceInsert(t, i, v)
  \/ \E i \in Indexes, v \in Values : SliceSafeInsert(t, i, v)
  \/ \E i \in Indexes, v \in Values : SliceReplace(t, i, v)
  \/ \E i \in Indexes, v \in Values : SliceSafeReplace(t, i, v)
  \/ \E i \in Indexes : SliceGet(t, i)
  \/ SliceGetAll(t)
  \/ \E i \in Indexes : SliceSafeGet(t, i)
  \/ \E i \in Indexes : SliceDelete(t, i)
  \/ \E i \in Indexes : SliceSafeDelete(t, i)
  \/ SliceEmpty(t)
  \/ \E f \in SUBSET Values : SliceIndexFunc(t, f)
  \/ SliceLen(t)

SliceStep(t) ==
  \/ SliceAppendLock(t) \/ SliceAppendBody(t)
  \/ SliceInsertLock(t) \/ SliceInsertBody(t)
  \/ SliceSafeInsertCheck(t) \/ SliceSafeInsertRLock(t) \/ SliceSafeInsertRCheck(t)
  \/ SliceSafeInsertLock(t) \/ SliceSafeInsertBody(t) \/ SliceSafeInsertWrite(t)
  \/ SliceReplaceLock(t) \/ SliceReplaceBody(t)
  \/ SliceSafeReplaceLock(t) \/ SliceSafeReplaceBody(t)
  \/ SliceGetLock(t) \/ SliceGetBody(t)
  \/ SliceGetAllLock(t) \/ SliceGetAllBody(t)
  \/ SliceSafeGetLock(t) \/ SliceSafeGetBody(t)
  \/ SliceDeleteLock(t) \/ SliceDeleteBody(t)
  \/ SliceSafeDeleteCheck(t) \/ SliceSafeDeleteLock(t) \/ SliceSafeDeleteBody(t)
  \/ SliceEmptyLock(t) \/ SliceEmptyBody(t)
  \/ SliceIndexFuncLock(t) \/ SliceIndexFuncBody(t)
  \/ SliceLenLock(t) \/ SliceLenBody(t)

Call(t) == MapCall(t) \/ SliceCall(t)

Step(t) == MapStep(t) \/ SliceStep(t)

Next == \E t \in Threads : Call(t) \/ Step(t)

Spec == Init /\ [][Next]_vars

\* One caller alone: the sequential behaviour of every method of every type.
Main == CHOOSE t \in Threads : TRUE

InitSeq ==
  /\ kind \in Kinds
  /\ last = [NoHistory EXCEPT !.on = TRUE]
  /\ mem = NoMem
  /\ Start

NextSeq == Call(Main) \/ Step(Main)

SpecSeq == InitSeq /\ [][NextSeq]_vars

\* Every thread calls Set (of the zero value or of another value), Get and
\* Delete on a key of its own of the mutex Map, and Len once the calls of the
\* other threads have returned; the history of its calls is kept.
KeyOf(t) == t

InitKeys ==
  /\ kind = "MapMutex"
  /\ last = [NoHistory EXCEPT !.on = TRUE]
  /\ mem = NoMem
  /\ Start

NextKeys ==
  \E t \in Threads :
    \/ \E v \in {Zero, MaxVal} : MapSet(t, KeyOf(t), v)
    \/ MapGet(t, KeyOf(t))
    \/ MapDelete(t, KeyOf(t))
    \/ Quiescent /\ MapLen(t)
    \/ MapSetLock(t) \/ MapSetBody(t)
    \/ MapGetLock(t) \/ MapGetBody(t)
    \/ MapDeleteLock(t) \/ MapDeleteBody(t)
    \/ MapLenLock(t) \/ MapLenBody(t)

SpecKeys == InitKeys /\ [][NextKeys]_vars

\* The scheduler runs every thread that can take a step, and a thread that
\* waits for a sync.Mutex gets it when the mutex is free again and again (the
\* mutex hands over to a waiter that has waited long).
KeysStep(t) ==
  \/ MapSetLock(t) \/ MapSetBody(t)
  \/ MapGetLock(t) \/ MapGetBody(t)
  \/ MapDeleteLock(t) \/ MapDeleteBody(t)
  \/ MapLenLock(t) \/ MapLenBody(t)

FairSpecKeys == SpecKeys /\ \A t \in Threads : SF_vars(KeysStep(t))

\* Threads that call Append, Delete, Empty, SafeDelete and SafeInsert on one
\* mutex Slice.
InitSafe ==
  /\ kind = "SliceMutex"
  /\ last = NoHistory
  /\ mem = NoMem
  /\ Start

NextSafe ==
  \E t \in Threads :
    \/ \E v \in Values : SliceAppend(t, v)
    \/ \E i \in Indexes : SliceDelete(t, i)
    \/ SliceEmpty(t)
    \/ \E i \in Indexes : SliceSafeDelete(t, i)
    \/ \E i \in Indexes, v \in Values : SliceSafeInsert(t, i, v)
    \/ SliceAppendLock(t) \/ SliceAppendBody(t)
    \/ SliceDeleteLock(t) \/ SliceDeleteBody(t)
    \/ SliceEmptyLock(t) \/ SliceEmptyBody(t)
    \/ SliceSafeDeleteCheck(t) \/ SliceSafeDeleteLock(t) \/ SliceSafeDeleteBody(t)
    \/ SliceSafeInsertCheck(t) \/ SliceSafeInsertLock(t) \/ SliceSafeInsertBody(t)

SpecSafe == InitSafe /\ [][NextSafe]_vars

\* One thread calls Items on a Map of either type while another calls Set,
\* Delete and Empty on it.
Writer == CHOOSE t \in Threads : t # Main

InitItems ==
  /\ kind \in MapKinds
  /\ last = NoHistory
  /\ mem = NoMem
  /\ Start

NextItems ==
  \/ MapItems(Main)
  \/ \E k \in Keys, v \in {Zero, MaxVal} : MapSet(Writer, k, v)
  \/ \E k \in Keys : MapDelete(Writer, k)
  \/ MapEmpty(Writer)
  \/ \E t \in Threads :
       \/ MapItemsLock(t) \/ MapItemsBody(t)
       \/ MapSetLock(t) \/ MapSetBody(t)
       \/ MapDeleteLock(t) \/ MapDeleteBody(t)
       \/ MapEmptyLock(t) \/ MapEmptyBody(t)

SpecItems == InitItems /\ [][NextItems]_vars


\* One caller alone that keeps the slice GetAll of the mutex Slice returned
\* last and goes on to call Append, Insert, Replace, Delete, SafeDelete and Empty.
InitHandle ==
  /\ kind = "SliceMutex"
  /\ last = NoHistory
  /\ mem = [NoMem EXCEPT !.on = TRUE]
  /\ Start

NextHandle ==
  \/ SliceGetAll(Main)
  \/ \E v \in Values : SliceAppend(Main, v)
  \/ \E i \in Indexes, v \in Values : SliceInsert(Main, i, v)
  \/ \E i \in Indexes, v \in Values : SliceReplace(Main, i, v)
  \/ \E i \in Indexes : SliceDelete(Main, i)
  \/ \E i \in Indexes : SliceSafeDelete(Main, i)
  \/ SliceEmpty(Main)
  \/ SliceGetAllLock(Main) \/ SliceGetAllBody(Main)
  \/ SliceAppendLock(Main) \/ SliceAppendBody(Main)
  \/ SliceInsertLock(Main) \/ SliceInsertBody(Main)
  \/ SliceReplaceLock(Main) \/ SliceReplaceBody(Main)
  \/ SliceDeleteLock(Main) \/ SliceDeleteBody(Main)
  \/ SliceSafeDeleteCheck(Main) \/ SliceSafeDeleteLock(Main) \/ SliceSafeDeleteBody(Main)
  \/ SliceEmptyLock(Main) \/ SliceEmptyBody(Main)

SpecHandle == InitHandle /\ [][NextHandle]_vars

\* One caller alone that reads the Data field of a Map of either type between
\* its calls of Set, Delete, Empty and Get.
InitDataRef ==
  /\ kind \in MapKinds
  /\ last = NoHistory
  /\ mem = [NoMem EXCEPT !.on = TRUE]
  /\ Start

NextDataRef ==
  \/ MapDataRef(Main)
  \/ \E k \in Keys, v \in Values : MapSet(Main, k, v)
  \/ \E k \in Keys : MapDelete(Main, k)
  \/ MapEmpty(Main)
  \/ \E k \in Keys : MapGet(Main, k)
  \/ MapSetLock(Main) \/ MapSetBody(Main)
  \/ MapDeleteLock(Main) \/ MapDeleteBody(Main)
  \/ MapEmptyLock(Main) \/ MapEmptyBody(Main)
  \/ MapGetLock(Main) \/ MapGetBody(Main)

SpecDataRef == InitDataRef /\ [][NextDataRef]_vars

\* One thread calls IndexFunc with a predicate that calls Len or Append of the
\* Slice it scans, while another thread calls Append.
InitReenter ==
  /\ kind \in SliceKinds
  /\ last = NoHistory
  /\ mem = NoMem
  /\ Start

NextReenter ==
  \/ \E f \in SUBSET Values, g \in {"Len", "Append"} :
       SliceIndexFuncCalling(Main, f, g, Zero)
  \/ \E v \in Values : SliceAppend(Writer, v)
  \/ \E t \in Threads :
       \/ SliceIndexFuncLock(t) \/ SliceIndexFuncBody(t) \/ SliceIndexFuncTest(t)
       \/ SliceAppendLock(t) \/ SliceAppendBody(t)
       \/ SliceLenLock(t) \/ SliceLenBody(t)

SpecReenter == InitReenter /\ [][NextReenter]_vars
\* ---------------------------------------------------------------- properties
\* The steps that read the container's Data and the steps that write it.
ReadSteps ==
  {"MapGetBody", "MapPullRead", "MapKeysBody", "MapValuesBody", "MapItemsBody",
   "MapLenBody", "SliceGetBody", "SliceGetAllBody", "SliceSafeGetBody",
   "SliceIndexFuncBody", "SliceLenBody", "SliceSafeInsertCheck",
   "SliceSafeInsertRCheck", "SliceSafeDeleteCheck"}

WriteSteps ==
  {"MapSetBody", "MapDeleteBody", "MapEmptyBody", "SliceAppendBody",
   "SliceInsertBody", "SliceSafeInsertBody", "SliceSafeInsertWrite",
   "SliceReplaceBody", "SliceSafeReplaceBody", "SliceDeleteBody",
   "SliceSafeDeleteBody", "SliceEmptyBody"}

\* Thread t waits for a lock that it cannot get in the current state.
Blocked(t) ==
  \/ pc[t] \in ExclusiveLabels /\ ~CanLock
  \/ pc[t] \in SharedLabels /\ ~(IF IsRW THEN CanRLock ELSE CanLock)

\* The step on which thread t returns from method o.
ReturnsFrom(t, o) == op[t] = o /\ pc[t] # "idle" /\ pc'[t] = "idle"

\* C1: on the mutex Map, a call Pull(K) that has stopped running has returned:
\* (v, true) with K removed when K was present, (zero, false) with K still
\* absent when it was not.
C1_PullReturnsAndRemoves ==
  \A t \in Threads :
    (kind = "MapMutex" /\ op[t] = "Pull" /\ (pc[t] = "idle" \/ Blocked(t))) =>
      /\ pc[t] = "idle"
      /\ ~Has(mData, arg[t].k)
      /\ ~ret[t].ok => ret[t].v = Zero

\* C2: Pull reads and removes K inside one critical section: from its read of
\* a present K until it returns, Pull holds the lock, never waits for it again,
\* and no other thread is at a step that reads or writes Data.
C2_PullOneCriticalSection ==
  \A t \in Threads :
    (op[t] = "Pull" /\ pc[t] # "idle" /\ ret[t].ok) =>
      /\ lock.w = t
      /\ ~Blocked(t)
      /\ \A u \in Threads \ {t} : pc[u] \notin ReadSteps \cup WriteSteps

\* C3: no reachable state is a deadlock: whenever a thread waits for the lock,
\* some call in progress can still take a step.
C3_NoDeadlock ==
  \A t \in Threads :
    Blocked(t) => \E u \in Threads : pc[u] # "idle" /\ ~Blocked(u)

\* C4: whenever no operation is in progress the lock is held by nobody: no
\* writer and no reader is outstanding.
C4_LockFreeWhenQuiescent ==
  Quiescent => lock.w = NoThread /\ \A u \in Threads : lock.r[u] = 0

\* What a rejected Safe* call does: it returns false, raises no fault and
\* leaves the sequence as it was.
Rejects(t) == ~ret'[t].ok /\ ~ret'[t].fault /\ sData' = sData

\* C5: with one caller, SafeInsert with index < 0 or index > Len(), SafeReplace
\* and SafeDelete with index < 0 or index >= Len() return false, raise no fault
\* and leave the sequence unchanged.
C5_SafeRejectsOutOfRange ==
  [][\A t \in Threads :
       /\ (ReturnsFrom(t, "SafeInsert") /\ (arg[t].i < 0 \/ arg[t].i > Len(sData)))
            => Rejects(t)
       /\ (ReturnsFrom(t, "SafeReplace") /\ (arg[t].i < 0 \/ arg[t].i >= Len(sData)))
            => Rejects(t)
       /\ (ReturnsFrom(t, "SafeDelete") /\ (arg[t].i < 0 \/ arg[t].i >= Len(sData)))
            => Rejects(t)]_vars

\* C6: SafeGet(index) returns (zero, false) when index < 0 or index >= Len(),
\* (element at index, true) otherwise, and never raises a fault.
C6_SafeGetNeverFaults ==
  [][\A t \in Threads :
       ReturnsFrom(t, "SafeGet") =>
         ret'[t] = IF arg[t].i < 0 \/ arg[t].i >= Len(sData)
                     THEN NoRet
                     ELSE [NoRet EXCEPT !.v = At(sData, arg[t].i), !.ok = TRUE]]_vars

\* C7: in every interleaving of Append, Delete, Empty, SafeDelete and
\* SafeInsert, a SafeDelete or SafeInsert call raises no fault: it returns true
\* having removed or inserted one element at its index of the sequence as it
\* was when the mutation was applied, or returns false having changed nothing.
C7_SafeCallsNeverFault ==
  [][\A t \in Threads :
       /\ ReturnsFrom(t, "SafeDelete") =>
            /\ ~ret'[t].fault
            /\ sData' = IF ret'[t].ok THEN DeleteAt(sData, arg[t].i) ELSE sData
       /\ ReturnsFrom(t, "SafeInsert") =>
            /\ ~ret'[t].fault
            /\ sData' = IF ret'[t].ok THEN InsertAt(sData, arg[t].i, arg[t].v)
                                     ELSE sData]_vars

\* C8: no data race on the backing storage: a thread about to read Data holds
\* the lock at least shared, a thread about to write Data holds it exclusively,
\* and none reads or writes Data while another thread holds the exclusive lock.
C8_NoDataRace ==
  \A t \in Threads :
    /\ pc[t] \in ReadSteps => (lock.w = t \/ lock.r[t] > 0)
    /\ pc[t] \in WriteSteps => lock.w = t
    /\ pc[t] \in ReadSteps \cup WriteSteps => lock.w \in {t, NoThread}
\* The keys that survive: those whose owning thread last completed a Set.
Survivors == {KeyOf(t) : t \in {u \in Threads : last.of[u] # <<>> /\ last.of[u][1] = "Set"}}

C9_Safety ==
  /\ \A t, u \in Threads :
       (t # u /\ pc[t] \in WriteSteps) => pc[u] \notin ReadSteps \cup WriteSteps
  /\ Quiescent =>
       /\ Cardinality(DOMAIN mData) = Cardinality(Survivors)
       /\ DOMAIN mData = Survivors
       /\ \A t \in Threads :
            KeyOf(t) \in Survivors => mData[KeyOf(t)] = last.of[t][3]

\* C9: threads that call Set, Get and Delete on pairwise distinct keys of one
\* Map: every call returns, no thread is at a step that writes the backing map
\* while another is at a step that reads or writes it, and once all threads
\* have finished the map holds exactly the keys whose owner's last Set or Delete
\* was a Set, each with the last value set, and Len() returns their number.
\* A call in progress is not idle, so every call returns exactly when every
\* thread is idle again and again.
C9_DistinctKeys ==
  /\ []C9_Safety
  /\ [][\A t \in Threads :
          ReturnsFrom(t, "Len") => ret'[t].v = Cardinality(Survivors)]_vars
  /\ \A t \in Threads : []<>(pc[t] = "idle")

\* C9 happens: all threads have finished, one key survives with a non-zero
\* value, and another thread last called Delete and then saw its key absent.
C9_Witness ==
  /\ Quiescent
  /\ \E t, u \in Threads :
       /\ last.of[t] = <<"Set", KeyOf(t), MaxVal>>
       /\ last.of[u] = <<"Delete", KeyOf(u)>>
       /\ op[u] = "Get" /\ ~ret[u].ok
       /\ Cardinality(DOMAIN mData) = 1

\* C10: Get(K) of an absent K returns (zero, false) and Get never changes the
\* map; after Set(K, v), whether K was absent or present, K maps to v, every
\* other key keeps its value, Len() grows by 1 exactly when K was absent, and a
\* following Get(K) returns (v, true).
C10_GetSet ==
  /\ [](\A t \in Threads :
          (kind \in MapKinds /\ pc[t] = "idle" /\ op[t] = "Get"
             /\ last.of[t] # <<>> /\ last.of[t][1] = "Set" /\ last.of[t][2] = arg[t].k)
          => (ret[t].ok /\ ret[t].v = last.of[t][3]))
  /\ [][\A t \in Threads :
          /\ (kind \in MapKinds /\ ReturnsFrom(t, "Get")) =>
               /\ mData' = mData
               /\ ret'[t].ok = Has(mData, arg[t].k)
               /\ ret'[t].v = IF Has(mData, arg[t].k) THEN mData[arg[t].k] ELSE Zero
               /\ ~ret'[t].fault
          /\ (kind \in MapKinds /\ ReturnsFrom(t, "Set")) =>
               /\ Has(mData', arg[t].k) /\ mData'[arg[t].k] = arg[t].v
               /\ \A x \in Keys \ {arg[t].k} :
                    /\ Has(mData', x) <=> Has(mData, x)
                    /\ Has(mData, x) => mData'[x] = mData[x]
               /\ Cardinality(DOMAIN mData') =
                    Cardinality(DOMAIN mData) + (IF Has(mData, arg[t].k) THEN 0 ELSE 1)]_vars

\* C10 happens: a Get returned (v, true) for the key that the last Set gave
\* the non-zero value v, while another key is in the map.
C10_Witness ==
  \E t \in Threads :
    /\ kind \in MapKinds /\ pc[t] = "idle" /\ op[t] = "Get"
    /\ last.of[t] = <<"Set", arg[t].k, MaxVal>>
    /\ ret[t].ok /\ ret[t].v = MaxVal
    /\ Cardinality(DOMAIN mData) = 2

\* C11: with Set, Delete and Empty calls of other threads in progress, no
\* thread writes the map while Items ranges over it, and Items returns keys and
\* values of equal length in which every key of the map as it is while the lock
\* is held appears exactly once and values[i] is the value keys[i] has in that
\* map; no other key and no other value is returned.
C11_ItemsConsistent ==
  /\ [](\A t, u \in Threads :
          (pc[t] = "MapItemsBody" /\ u # t) => pc[u] \notin WriteSteps)
  /\ [][\A t \in Threads :
          ReturnsFrom(t, "Items") =>
            /\ Len(ret'[t].ks) = Len(ret'[t].vs)
            /\ Len(ret'[t].ks) = Cardinality(DOMAIN mData)
            /\ \A k \in DOMAIN mData :
                 Cardinality({i \in DOMAIN ret'[t].ks : ret'[t].ks[i] = k}) = 1
            /\ \A i \in DOMAIN ret'[t].ks :
                 /\ Has(mData, ret'[t].ks[i])
                 /\ ret'[t].vs[i] = mData[ret'[t].ks[i]]]_vars

\* C11 happens: Items has returned two keys with two different values, and
\* another thread holds the lock and is about to remove a key of the map.
C11_Witness ==
  \E t, u \in Threads :
    /\ op[t] = "Items" /\ pc[t] = "idle"
    /\ Len(ret[t].ks) = 2 /\ ret[t].vs[1] # ret[t].vs[2]
    /\ pc[u] = "MapDeleteBody" /\ Has(mData, arg[u].k)

\* C12: Delete(index) with 0 <= index < n on a sequence of length n raises no
\* fault and leaves a sequence of length n-1 whose elements below index are
\* unchanged and whose element at every j from index on is the element that
\* was at j+1; SafeDelete(index) with index out of range returns false and
\* leaves the sequence unchanged.
C12_DeleteShifts ==
  [][\A t \in Threads :
       /\ (kind \in SliceKinds /\ ReturnsFrom(t, "Delete")
             /\ 0 <= arg[t].i /\ arg[t].i < Len(sData)) =>
            /\ ~ret'[t].fault
            /\ Len(sData') = Len(sData) - 1
            /\ \A j \in 0..(Len(sData) - 2) :
                 At(sData', j) = IF j < arg[t].i THEN At(sData, j) ELSE At(sData, j + 1)
       /\ (kind \in SliceKinds /\ ReturnsFrom(t, "SafeDelete")
             /\ (arg[t].i < 0 \/ arg[t].i >= Len(sData))) =>
            (~ret'[t].ok /\ ~ret'[t].fault /\ sData' = sData)]_vars

\* C12 happens: Delete(0) has returned without a fault and left the one
\* element that was appended last, of a value other than the zero value.
C12_Witness ==
  \E t \in Threads :
    /\ kind \in SliceKinds /\ op[t] = "Delete" /\ pc[t] = "idle"
    /\ arg[t].i = 0 /\ ~ret[t].fault
    /\ sData = <<MaxVal>>

\* C13: Append(v) on a sequence of length n, the zero value of Slice and a
\* Slice just emptied included, raises no fault, leaves the first n elements
\* unchanged and makes the length n+1 with v as the last element; Len() returns
\* the length, and a Get(n) that follows the Append returns v. With one caller
\* on the mutex Slice the call never waits for the lock.
C13_Append ==
  /\ [](\A t \in Threads :
          /\ (kind \in SliceKinds /\ pc[t] = "idle" /\ op[t] = "Get"
                /\ last.of[t] # <<>> /\ last.of[t][1] = "Append"
                /\ arg[t].i = Len(sData) - 1)
               => (~ret[t].fault /\ ret[t].v = last.of[t][2])
          /\ (kind = "SliceMutex" /\ op[t] = "Append") => ~Blocked(t))
  /\ [][\A t \in Threads :
          /\ (kind \in SliceKinds /\ ReturnsFrom(t, "Append")) =>
               /\ ~ret'[t].fault
               /\ Len(sData') = Len(sData) + 1
               /\ \A j \in 0..(Len(sData) - 1) : At(sData', j) = At(sData, j)
               /\ At(sData', Len(sData)) = arg[t].v
          /\ (kind \in SliceKinds /\ ReturnsFrom(t, "Len")) =>
               (ret'[t].v = Len(sData) /\ sData' = sData)]_vars

\* C13 happens: after an Append of a non-zero value to a sequence that held
\* the zero value, Get of the last index has returned the appended value.
C13_Witness ==
  \E t \in Threads :
    /\ kind \in SliceKinds /\ pc[t] = "idle" /\ op[t] = "Get"
    /\ last.of[t] = <<"Append", MaxVal>>
    /\ sData = <<Zero, MaxVal>> /\ arg[t].i = 1
    /\ ret[t].v = MaxVal /\ ~ret[t].fault

\* C14: IndexFunc(p) with a predicate that does not touch the container
\* returns -1 when no element satisfies p and else the smallest index whose
\* element satisfies p; the scan starts at index 0, goes from an index whose
\* element fails p to the next one, has found no match below the index it is
\* at, stops at the first match, and never changes the sequence.
C14_IndexFunc ==
  /\ [](\A t \in Threads :
          (kind \in SliceKinds /\ op[t] = "IndexFunc" /\ arg[t].re = "none") =>
            /\ pc[t] = "SliceIndexFuncLock" => ret[t].v = 0
            /\ pc[t] = "SliceIndexFuncBody" =>
                 \A j \in 0..(ret[t].v - 1) : j < Len(sData) => At(sData, j) \notin arg[t].f)
  /\ [][\A t \in Threads :
          (kind \in SliceKinds /\ op[t] = "IndexFunc" /\ arg[t].re = "none"
             /\ pc[t] # "idle") =>
            /\ sData' = sData
            /\ (pc[t] = "SliceIndexFuncBody" /\ pc'[t] = "SliceIndexFuncBody") =>
                 (ret'[t].v = ret[t].v + 1 /\ At(sData, ret[t].v) \notin arg[t].f)
            /\ pc'[t] = "idle" =>
                 /\ ~ret'[t].fault
                 /\ IF \A j \in 0..(Len(sData) - 1) : At(sData, j) \notin arg[t].f
                      THEN ret'[t].v = 0 - 1
                      ELSE /\ ret'[t].v \in 0..(Len(sData) - 1)
                           /\ At(sData, ret'[t].v) \in arg[t].f
                           /\ \A j \in 0..(ret'[t].v - 1) : At(sData, j) \notin arg[t].f]_vars

\* C14 happens: IndexFunc has passed an element that fails the predicate and
\* returned index 1, of the first element that satisfies it.
C14_Witness ==
  \E t \in Threads :
    /\ kind \in SliceKinds /\ op[t] = "IndexFunc" /\ pc[t] = "idle"
    /\ arg[t].re = "none" /\ arg[t].f = {MaxVal}
    /\ sData = <<Zero, MaxVal>> /\ ret[t].v = 1

\* The number of entries of the Map or of elements of the Slice.
Size == IF kind \in MapKinds THEN Cardinality(DOMAIN mData) ELSE Len(sData)

\* C15: after Empty() has returned, whatever the container held, the container
\* is empty and the lock is free; as long as no mutating call has completed
\* since, Len() returns 0, and a Set or an Append that follows raises no fault
\* and makes the size, which is what Len() returns, 1.
C15_EmptyThenLen ==
  /\ [](\A t \in Threads :
          (last.of[t] # <<>> /\ last.of[t][1] = "Empty") =>
            /\ Size = 0
            /\ (pc[t] = "idle" /\ op[t] = "Len") => (ret[t].v = 0 /\ ~ret[t].fault))
  /\ [][\A t \in Threads :
          /\ ReturnsFrom(t, "Empty") =>
               /\ Size' = 0 /\ ~ret'[t].fault
               /\ lock'.w = NoThread /\ lock'.r = lock.r
          /\ ((ReturnsFrom(t, "Set") \/ ReturnsFrom(t, "Append"))
                /\ last.of[t] # <<>> /\ last.of[t][1] = "Empty") =>
               (Size' = 1 /\ ~ret'[t].fault)
          /\ ReturnsFrom(t, "Len") => ret'[t].v = Size]_vars

\* C15 happens: Len() has returned 0 on a container whose last completed
\* mutating call is an Empty that discarded more than one entry or element.
C15_Witness ==
  \E t \in Threads :
    /\ pc[t] = "idle" /\ op[t] = "Len" /\ ret[t].v = 0
    /\ last.of[t] # <<>> /\ last.of[t][1] = "Empty" /\ last.of[t][2] > 1

\* The index is outside 0..Len()-1, and outside 0..Len().
OutOfRange(t) == arg[t].i < 0 \/ arg[t].i >= Len(sData)

OutOfInsertRange(t) == arg[t].i < 0 \/ arg[t].i > Len(sData)

Shifted(t) ==
  /\ Len(sData') = Len(sData) + 1
  /\ \A j \in 0..Len(sData) :
       At(sData', j) = IF j < arg[t].i THEN At(sData, j)
                       ELSE IF j = arg[t].i THEN arg[t].v
                       ELSE At(sData, j - 1)

\* The sequence after is the sequence before with v in the place of the
\* element at index.
Overwritten(t) ==
  /\ Len(sData') = Len(sData)
  /\ \A j \in 0..(Len(sData) - 1) :
       At(sData', j) = IF j = arg[t].i THEN arg[t].v ELSE At(sData, j)

\* C17 as claimed: in every Slice type, Insert(index, v) and a successful
\* SafeInsert(index, v) with 0 <= index <= n on a sequence of length n insert
\* with shift.
C17_InsertShifts ==
  [][\A t \in Threads :
       (kind \in SliceKinds /\ 0 <= arg[t].i /\ arg[t].i <= Len(sData)) =>
         /\ ReturnsFrom(t, "Insert") => (~ret'[t].fault /\ Shifted(t))
         /\ (ReturnsFrom(t, "SafeInsert") /\ ret'[t].ok) => Shifted(t)]_vars

\* C17 amended: in the mutex Slice, Insert(index, v) and a successful
\* SafeInsert(index, v) with 0 <= index <= n insert with shift; in the RWMutex
\* Slices, Insert(index, v) with 0 <= index < n and every successful SafeInsert
\* overwrite the element at index and keep the length n, Insert(n, v) raises a
\* fault and SafeInsert(n, v) returns false, both leaving the sequence as it is.
C17_InsertShiftsOrOverwrites ==
  [][\A t \in Threads :
       /\ (kind = "SliceMutex" /\ 0 <= arg[t].i /\ arg[t].i <= Len(sData)) =>
            /\ ReturnsFrom(t, "Insert") => (~ret'[t].fault /\ Shifted(t))
            /\ (ReturnsFrom(t, "SafeInsert") /\ ret'[t].ok) => Shifted(t)
       /\ (kind \in SliceKinds \ {"SliceMutex"} /\ 0 <= arg[t].i) =>
            /\ (ReturnsFrom(t, "Insert") /\ arg[t].i < Len(sData)) =>
                 (~ret'[t].fault /\ Overwritten(t))
            /\ (ReturnsFrom(t, "Insert") /\ arg[t].i = Len(sData)) =>
                 (ret'[t].fault /\ sData' = sData)
            /\ (ReturnsFrom(t, "SafeInsert") /\ ret'[t].ok) =>
                 (arg[t].i < Len(sData) /\ Overwritten(t))
            /\ (ReturnsFrom(t, "SafeInsert") /\ arg[t].i = Len(sData)) =>
                 (~ret'[t].ok /\ ~ret'[t].fault /\ sData' = sData)]_vars

\* C17 happens: on the mutex Slice, Insert(0, v) of a non-zero v has put v
\* before the zero value that was the only element.
C17_Witness ==
  \E t \in Threads :
    /\ kind = "SliceMutex" /\ op[t] = "Insert" /\ pc[t] = "idle" /\ ~ret[t].fault
    /\ arg[t].i = 0 /\ arg[t].v = MaxVal
    /\ sData = <<MaxVal, Zero>>

\* C18 as claimed: the length and the elements seen through the slice that
\* GetAll returned stay the same on every step of every later call.
C18_HandleIsSnapshot ==
  [][(\A t \in Threads : ~ReturnsFrom(t, "GetAll")) => HandleView' = HandleView]_vars

\* C18 amended: the slice that GetAll returned keeps its length on every step
\* of every later call, and keeps its elements on every step but the one on
\* which a call writes s.Data; of these, an Empty, and an Append made while
\* the Slice is at least as long as the slice handed out, keep its elements too.
C18_HandleSharesArray ==
  [][(\A t \in Threads : ~ReturnsFrom(t, "GetAll")) =>
       /\ Len(HandleView') = Len(HandleView)
       /\ (\A t \in Threads : pc[t] \notin WriteSteps) => HandleView' = HandleView
       /\ \A t \in Threads :
            /\ ReturnsFrom(t, "Empty") => HandleView' = HandleView
            /\ (ReturnsFrom(t, "Append") /\ Len(sData) >= Len(HandleView)) =>
                 HandleView' = HandleView]_vars

\* C18 happens: the caller holds a slice of two different elements that GetAll
\* returned, and an Empty has returned since and left the Slice empty.
C18_Witness ==
  \E t \in Threads :
    /\ op[t] = "Empty" /\ pc[t] = "idle"
    /\ sData = <<>>
    /\ HandleView = <<Zero, MaxVal>>

\* C19: Empty() leaves the Map with an empty collection and the collection a
\* reference taken before points to with exactly the entries it had, and the
\* reference no longer points to the Map's collection; from then on Set and
\* Delete change the Map's collection and never what the reference shows.
\* Delete(K) for an absent K raises no fault and leaves the map unchanged.
C19_EmptyReplaces ==
  [][\A t \in Threads :
       /\ ReturnsFrom(t, "Empty") =>
            /\ mData' = EmptyMap
            /\ RefView' = RefView
            /\ ~mem'.ref.shared
       /\ ((ReturnsFrom(t, "Set") \/ ReturnsFrom(t, "Delete")) /\ ~mem.ref.shared) =>
            RefView' = RefView
       /\ ReturnsFrom(t, "Set") => (Has(mData', arg[t].k) /\ mData'[arg[t].k] = arg[t].v)
       /\ ReturnsFrom(t, "Delete") =>
            /\ ~Has(mData', arg[t].k) /\ ~ret'[t].fault
            /\ ~Has(mData, arg[t].k) => mData' = mData]_vars

\* C19 happens: a reference taken before an Empty still shows two entries,
\* and a Set made after the Empty has given one of their keys another value
\* in the Map.
C19_Witness ==
  \E t \in Threads :
    /\ kind \in MapKinds /\ op[t] = "Set" /\ pc[t] = "idle"
    /\ ~mem.ref.shared /\ Cardinality(DOMAIN RefView) = 2
    /\ Cardinality(DOMAIN mData) = 1
    /\ Has(mData, arg[t].k) /\ mData[arg[t].k] # RefView[arg[t].k]

\* The predicate of thread t's IndexFunc has called into the Slice and is at
\* the lock call of the method it called.
Reentered(t) == op[t] = "IndexFunc" /\ pc[t] \in {"SliceLenLock", "SliceAppendLock"}

\* The cases in which the call of the predicate cannot return: any call on the
\* mutex Slice, a write on an RWMutex Slice, and a read on an RWMutex Slice
\* while another thread waits for the exclusive lock.
Stuck(t) ==
  /\ Reentered(t)
  /\ \/ kind = "SliceMutex"
     \/ pc[t] = "SliceAppendLock"
     \/ \E u \in Threads \ {t} : pc[u] \in ExclusiveLabels

\* C20: a predicate that calls back into the Slice is called on every
\* non-empty sequence, so that an IndexFunc whose predicate calls into the
\* mutex Slice or writes an RWMutex Slice returns only from an empty sequence,
\* with -1; and a thread whose predicate is in such a call, or reads an RWMutex
\* Slice while another thread waits for the exclusive lock, holds the lock,
\* cannot take the lock it waits for, and stays so on every step: its IndexFunc
\* never returns.
C20_ReentryDeadlocks ==
  /\ [](\A t \in Threads :
          Stuck(t) => (Blocked(t) /\ (lock.w = t \/ lock.r[t] > 0) /\ Len(sData) > 0))
  /\ [][\A t \in Threads :
          /\ Stuck(t) => Stuck(t)'
          /\ (ReturnsFrom(t, "IndexFunc") /\ arg[t].re # "none"
                /\ (kind = "SliceMutex" \/ arg[t].re = "Append")) =>
               (Len(sData) = 0 /\ ret'[t].v = 0 - 1)]_vars

\* C20 happens: on an RWMutex Slice with an element, the predicate of a thread
\* that holds the read lock has called Len while another thread waits in
\* Append for the exclusive lock.
C20_Witness ==
  \E t, u \in Threads :
    /\ kind = "SliceRW" /\ Len(sData) > 0
    /\ op[t] = "IndexFunc" /\ pc[t] = "SliceLenLock" /\ lock.r[t] > 0
    /\ op[u] = "Append" /\ pc[u] = "SliceAppendLock"
====
